---- MODULE Spec2Model ----
(***************************************************************************)
(* Model of the admin review bot (src/bot.py): the in-memory draft         *)
(* registry, the ratings table behind upsert_rating / fetch_stats, the     *)
(* star-selection handler with its suspension points, and the card         *)
(* rendering helpers.                                                      *)
(***************************************************************************)
EXTENDS Integers, Sequences, FiniteSets, Bags, TLC

(***************************************************************************)
(* Bounds of the model.                                                    *)
(***************************************************************************)
MaxInFlight == 2    \* coroutines suspended at the same time
MaxViews == 2       \* StarSelectViews on screen at the same time
MaxRows == 2        \* the rows the ratings table holds for the admin at the start
Scale == 100        \* the steps of the fixed-point grid between two integers

(***************************************************************************)
(* Program constants.                                                      *)
(***************************************************************************)
MinStar == 1
MaxStar == 5

\* CATEGORIES (the keys of the dict)
CATEGORIES == {"service", "solving", "communication"}

\* Python's None in a draft field
None == 0

\* no upsert_rating call made
NoCall == << >>

\* The user ids of the model: user 1 is the admin with a review card, user 2
\* is a member who rates.  An admin is a user too and can act on the card.
Admins == {1}
Users == {1, 2}
StarOptions == MinStar..MaxStar
\* the star values the model lets a user pick: the two ends of the scale
ScoreInputs == {MinStar, MaxStar}

\* str(admin_id): the decimal representation of a non-negative integer
Digit == <<"0", "1", "2", "3", "4", "5", "6", "7", "8", "9">>
RECURSIVE str(_)
str(n) == IF n < 10 THEN Digit[n + 1] ELSE str(n \div 10) \o Digit[(n % 10) + 1]

\* RatingDraft(): a fresh draft, all three fields unset
RatingDraft == [service |-> None, solving |-> None, communication |-> None]

VARIABLES
    drafts,     \* the dict drafts: (admin_id, rater_id) -> RatingDraft
    ratings,    \* the rows of the backend table "ratings"
    views,      \* the StarSelectViews on screen: <<admin_id, category, user>>
    handlers,   \* the bag of StarSelect.callback invocations in flight
    lastCall,   \* history: the arguments and outcome of the latest upsert_rating call
    lastWrite,  \* history: per key, the scores of the latest successful write
    chosen,     \* history: per key and category, the latest score picked
    picked,     \* history: per key, the picks since the key last had no draft
    admins,     \* the rows of the backend table "admins"
    card,       \* per admin, the embed of the review card on screen
    rendering,  \* the bag of make_embed calls suspended in resolve_admin_display
    arg,        \* the arguments of a helper or command put on record
    result      \* what the helper returned, or the command sent

flowVars == <<drafts, ratings, views, handlers, lastCall, lastWrite, chosen, picked>>
cardVars == <<admins, card, rendering>>
funVars == <<arg, result>>
vars == <<flowVars, cardVars, funVars>>

Keys == Admins \X Users

\* the coroutines suspended: the StarSelect callbacks and the make_embed
\* calls
InFlight == BagCardinality(handlers) + BagCardinality(rendering)

One(h) == SetToBag({h})

\* drafts[key] = RatingDraft(): the stored draft is not looked up
GetOrCreate_fresh(d, key) == RatingDraft

\* drafts.get(key) or RatingDraft(): a draft object is always truthy
GetOrCreate(d, key) == IF key \in DOMAIN d THEN d[key] ELSE RatingDraft

\* drafts[key] = draft
DraftsSet(d, key, draft) == [k \in (DOMAIN d) \cup {key} |-> IF k = key THEN draft ELSE d[k]]

\* drafts.clear(): every draft goes, not only the one of the key
DraftsPop_all(d, key) == [k \in {} |-> RatingDraft]

\* drafts.pop(key, None)
DraftsPop(d, key) == [k \in (DOMAIN d) \ {key} |-> d[k]]

\* setattr on a new RatingDraft() instead of the stored draft
SetAttr_fresh(draft, category, score) == [RatingDraft EXCEPT ![category] = score]

\* setattr(draft, category, score)
SetAttr(draft, category, score) == [draft EXCEPT ![category] = score]

\* draft.service is None: only the first field is looked at
HasNone_first(draft) == draft.service = None

\* None in draft.__dict__.values()
HasNone(draft) == \E c \in DOMAIN draft : draft[c] = None

\* the row upsert_rating sends
RatingRow(admin_id, rater_id, service, solving, communication) ==
    [admin_id |-> str(admin_id), rater_id |-> str(rater_id),
     service |-> service, solving |-> solving, communication |-> communication]

\* upsert_rating without a conflict target that matches: the row is inserted
\* next to the one already stored for the pair
upsert_rating_insert(rows, admin_id, rater_id, service, solving, communication) ==
    rows \cup {RatingRow(admin_id, rater_id, service, solving, communication)}

\* upsert_rating on a reachable backend: on_conflict="admin_id,rater_id"
\* replaces the row of the pair, or inserts it
upsert_rating(rows, admin_id, rater_id, service, solving, communication) ==
    {r \in rows : ~(r.admin_id = str(admin_id) /\ r.rater_id = str(rater_id))}
        \cup {RatingRow(admin_id, rater_id, service, solving, communication)}

\* interaction.user.id == str(self.admin_id): an int never equals a str
IsSelf_str(user, admin_id) == FALSE

\* interaction.user.id == self.admin_id
IsSelf(user, admin_id) == user = admin_id

\* drafts.pop(key, None) in a finally clause: popped whatever the outcome
AfterWrite_finally(d, key, ok) == DraftsPop(d, key)

\* the draft registry after the try block: popped on success only
AfterWrite(d, key, ok) == IF ok THEN DraftsPop(d, key) ELSE d

(***************************************************************************)
(* StarSelect.callback after the defer, up to the follow-up send: what the *)
(* handler does to drafts and to the ratings table, the call it makes and  *)
(* the reply it sends.  ok is the outcome of the backend call.             *)
(***************************************************************************)
StarCallback(d, rows, admin_id, user, category, score, ok) ==
    IF IsSelf(user, admin_id)
    THEN [drafts |-> d, ratings |-> rows, call |-> NoCall, reply |-> "self"]
    ELSE LET key == <<admin_id, user>>
             draft == SetAttr(GetOrCreate(d, key), category, score)
             d1 == DraftsSet(d, key, draft)
             args == <<admin_id, user, draft.service, draft.solving, draft.communication>>
         IN  IF HasNone(draft)
             THEN [drafts |-> d1, ratings |-> rows, call |-> NoCall, reply |-> "saved"]
             ELSE [drafts |-> AfterWrite(d1, key, ok),
                   ratings |-> IF ok
                               THEN upsert_rating(rows, admin_id, user, draft.service,
                                                  draft.solving, draft.communication)
                               ELSE rows,
                   call |-> args,
                   reply |-> IF ok THEN "thanks" ELSE "failed"]

\* the rows a table holds for a key
RowsOf(rows, key) == {r \in rows : r.admin_id = str(key[1]) /\ r.rater_id = str(key[2])}

\* the scores of a row
Triple(r) == <<r.service, r.solving, r.communication>>

(***************************************************************************)
(* Statistics and rendering.  A Python float is an IEEE 754 binary64       *)
(* number.  The floats of the program are 0.0 and positive numbers far     *)
(* from the ends of the range, so the sign, the infinities, NaN and the    *)
(* subnormal numbers are left out.  A float is its 53-bit significand and  *)
(* its exponent; the significand is held in two parts, the 32-bit integers *)
(* of TLC being too short for it:                                          *)
(*     value = (m1 * 2^27 + m0) * 2^(exp - 52),  2^25 <= m1 < 2^26,        *)
(* and 0.0 has m1 = m0 = exp = 0.                                          *)
(***************************************************************************)
Pow2(k) == 2 ^ k

\* the lower part of a significand counts up to Low
Low == Pow2(27)

Float(m1, m0, exp) == [m1 |-> m1, m0 |-> m0, exp |-> exp]

\* 0.0
Zero == Float(0, 0, 0)

\* n.bit_length()
RECURSIVE bit_length(_)
bit_length(n) == IF n = 0 THEN 0 ELSE 1 + bit_length(n \div 2)

\* round-to-nearest, ties to even: the bits cut off are the guard bit and,
\* or-ed together in sticky, the bits below it
RoundsUp(guard, sticky, odd) == guard = 1 /\ (sticky \/ odd)

\* the float with the significand m1, m0 after rounding, one unit in the
\* last place higher when up is set
Rounded(m1, m0, exp, up) ==
    IF ~up THEN Float(m1, m0, exp)
    ELSE IF m0 + 1 < Low THEN Float(m1, m0 + 1, exp)
    ELSE IF m1 + 1 < Pow2(26) THEN Float(m1 + 1, 0, exp)
    ELSE Float(Pow2(25), 0, exp + 1)

\* m1 * 2^27 + m0 shifted right by d bits, with the guard bit and the
\* sticky bit of what is shifted out
ShiftRight(m1, m0, d) ==
    IF d = 0 THEN [m1 |-> m1, m0 |-> m0, guard |-> 0, sticky |-> FALSE]
    ELSE IF d <= 27
    THEN LET out == m0 % Pow2(d)
         IN  [m1 |-> m1 \div Pow2(d),
              m0 |-> (m0 \div Pow2(d)) + ((m1 % Pow2(d)) * Pow2(27 - d)),
              guard |-> out \div Pow2(d - 1),
              sticky |-> (out % Pow2(d - 1)) # 0]
    ELSE IF d <= 58
    THEN LET top == m1 \div Pow2(d - 28)
         IN  [m1 |-> 0, m0 |-> top \div 2, guard |-> top % 2,
              sticky |-> (m1 % Pow2(d - 28)) # 0 \/ m0 # 0]
    ELSE [m1 |-> 0, m0 |-> 0, guard |-> 0, sticky |-> m1 # 0 \/ m0 # 0]

\* the float of an integer 0 <= n < 2^26: the conversion is exact
FromInt(n) ==
    IF n = 0 THEN Zero
    ELSE Float(n * Pow2(26 - bit_length(n)), 0, bit_length(n) - 1)

\* x / n for a float x and an integer 0 < n < 2^13, correctly rounded.  The
\* significand is divided by n from its upper part down, 9 bits at a time
\* below it, and the division goes on by j bits until the quotient has 53.
FloatDiv(x, n) ==
    IF x = Zero THEN Zero
    ELSE LET q1 == x.m1 \div n
             ta == ((x.m1 % n) * Pow2(9)) + (x.m0 \div Pow2(18))
             tb == ((ta % n) * Pow2(9)) + ((x.m0 \div Pow2(9)) % Pow2(9))
             tc == ((tb % n) * Pow2(9)) + (x.m0 % Pow2(9))
             q0 == ((((ta \div n) * Pow2(9)) + (tb \div n)) * Pow2(9)) + (tc \div n)
             More(j) == [m1 |-> (q1 * Pow2(j)) + (q0 \div Pow2(27 - j)),
                         m0 |-> ((q0 % Pow2(27 - j)) * Pow2(j))
                                    + (((tc % n) * Pow2(j)) \div n),
                         r |-> ((tc % n) * Pow2(j)) % n,
                         j |-> j]
             short == More(bit_length(n) - 1)
             Q == IF short.m1 >= Pow2(25) THEN short ELSE More(bit_length(n))
             up == 2 * Q.r > n \/ (2 * Q.r = n /\ (Q.m0 % 2) = 1)
         IN  Rounded(Q.m1, Q.m0, x.exp - Q.j, up)

\* p / n for integers 0 <= p < 2^26 and 0 < n < 2^13: the float nearest to
\* the quotient
truediv(p, n) == FloatDiv(FromInt(p), n)

\* x + y for floats
FloatAdd(x, y) ==
    IF x = Zero THEN y
    ELSE IF y = Zero THEN x
    ELSE LET big == IF x.exp >= y.exp THEN x ELSE y
             small == IF x.exp >= y.exp THEN y ELSE x
             sh == ShiftRight(small.m1, small.m0, big.exp - small.exp)
             t0 == (big.m0 + sh.m0) % Low
             t1 == big.m1 + sh.m1 + ((big.m0 + sh.m0) \div Low)
         IN  IF t1 < Pow2(26)
             THEN Rounded(t1, t0, big.exp, RoundsUp(sh.guard, sh.sticky, (t0 % 2) = 1))
             ELSE Rounded(t1 \div 2, (t0 \div 2) + ((t1 % 2) * Pow2(26)), big.exp + 1,
                          RoundsUp(t0 % 2, sh.guard = 1 \/ sh.sticky, ((t0 \div 2) % 2) = 1))

\* a number written in decimal or fixed-point notation: num / den
Rat(n, d) == [num |-> n, den |-> d]

\* the float a decimal literal denotes: the one nearest to its value
Literal(q) == truediv(q.num, q.den)

\* .select(...).eq("rater_id", str(admin_id)): the filter names the wrong column
Select_rater(table, admin_id) == {r \in table : r.rater_id = str(admin_id)}

\* sb.table("ratings").select(...).eq("admin_id", str(admin_id)): the rows of
\* the admin.  The rows are kept whole so that two raters who gave the same
\* scores stay two rows, as in the list the backend returns.
Select(table, admin_id) == {r \in table : r.admin_id = str(admin_id)}

\* the response of the backend: res.data holds the selected rows, or no
\* data at all when absent is set and nothing was selected
Execute(table, admin_id, absent) ==
    LET sel == Select(table, admin_id)
    IN  [present |-> ~(absent /\ sel = {}), data |-> sel]

\* res.data or []
OrEmpty(res) == IF res.present THEN res.data ELSE {}

\* sum(r[c] for r in rows)
RECURSIVE sum(_, _)
sum(rows, c) ==
    IF rows = {} THEN 0
    ELSE LET r == CHOOSE x \in rows : TRUE IN r[c] + sum(rows \ {r}, c)

\* len(rows)
len(rows) == Cardinality(rows)

\* the dict fetch_stats returns
Stats(n, s, so, c, total) ==
    [voters |-> n, avg_service |-> s, avg_solving |-> so, avg_communication |-> c,
     avg_total |-> total]

\* lines 98-109 with avg_total = s + so + c: the division by 3 is missing
Aggregate_sum(rows) ==
    LET n == len(rows)
        s == truediv(sum(rows, "service"), n)
        so == truediv(sum(rows, "solving"), n)
        c == truediv(sum(rows, "communication"), n)
    IN  Stats(n, s, so, c, FloatAdd(FloatAdd(s, so), c))

\* fetch_stats on rows that are not empty: the count and the four averages
Aggregate(rows) ==
    LET n == len(rows)
        s == truediv(sum(rows, "service"), n)
        so == truediv(sum(rows, "solving"), n)
        c == truediv(sum(rows, "communication"), n)
    IN  Stats(n, s, so, c, FloatDiv(FloatAdd(FloatAdd(s, so), c), 3))

\* fetch_stats without the early return: the averages of no rows divide by
\* zero and the call raises
fetch_stats_noguard(res) ==
    LET rows == OrEmpty(res)
    IN  IF len(rows) = 0 THEN [raised |-> "ZeroDivisionError"] ELSE Aggregate(rows)

\* fetch_stats, from the response of the backend on
fetch_stats(res) ==
    LET rows == OrEmpty(res)
    IN  IF rows = {} THEN Stats(0, Zero, Zero, Zero, Zero)
        ELSE Aggregate(rows)

\* the integer a float below 2^26 is rounded to when the bits after the
\* binary point are cut off: sh is the significand shifted right
ToNearest(sh) ==
    IF RoundsUp(sh.guard, sh.sticky, (sh.m0 % 2) = 1) THEN sh.m0 + 1 ELSE sh.m0

\* int(v): the fraction is cut off
round_trunc(v) == ShiftRight(v.m1, v.m0, 52 - v.exp).m0

\* round(v): the integer nearest to the float, and the even one of the two
\* when the float is half way between them
round(v) == ToNearest(ShiftRight(v.m1, v.m0, 52 - v.exp))

max(x, y) == IF x >= y THEN x ELSE y
min(x, y) == IF x <= y THEN x ELSE y

\* the two symbols stars() writes
Glyph == "star"
Placeholder == "dash"

\* stars with the test n > 1: a single star is not shown
stars_gt1(v) ==
    LET n == max(0, min(MaxStar, round(v)))
    IN  IF n > 1 THEN [i \in 1..n |-> Glyph] ELSE <<Placeholder>>

\* stars(v): the string is modelled by the sequence of its symbols
stars(v) ==
    LET n == max(0, min(MaxStar, round(v)))
    IN  IF n > 0 THEN [i \in 1..n |-> Glyph] ELSE <<Placeholder>>

\* m1 * 2^27 + m0 times 5
Times5(m) == [m1 |-> (5 * m.m1) + ((5 * m.m0) \div Low), m0 |-> (5 * m.m0) % Low]

\* f"{v:.2f}": the text is modelled by the number of hundredths it shows,
\* which is 100 * v rounded to the nearest integer, ties to even, on the
\* exact value of the float: 25 times the significand, shifted
Fmt2(v) ==
    LET x == Times5(Times5(v))
    IN  ToNearest(ShiftRight(x.m1, x.m0, 50 - v.exp))

\* no url: Python's None where a url is expected
NoUrl == ""
CustomUrl == "attachment.png"
AvatarUrl == "avatar.png"

\* the ways the awaited lookup of the admin on the platform can end: the
\* guild member is found, only the global user is found, or nothing is found
Lookups == {"member", "user", "nothing"}

\* guild.get_member finds the member in the cache: no lookup is awaited
Cached == "cached"

\* resolve_admin_display: the name and the avatar url
resolve_admin_display(admin_id, lookup) ==
    IF lookup = Cached \/ lookup = "member" THEN <<"display_name", AvatarUrl>>
    ELSE IF lookup = "user" THEN <<"name", AvatarUrl>>
    ELSE <<"User " \o str(admin_id), NoUrl>>

\* the row of the admin in the table "admins"
AdminRows(tbl, admin_id) == {r \in tbl : r.admin_id = str(admin_id)}

\* ensure_admin that returns without the upsert
ensure_admin_skip(tbl, admin_id) == tbl

\* ensure_admin: the upsert names the admin_id column only, a stored row
\* keeps its custom_image
ensure_admin(tbl, admin_id) ==
    IF AdminRows(tbl, admin_id) # {} THEN tbl
    ELSE tbl \cup {[admin_id |-> str(admin_id), custom_image |-> NoUrl]}

\* set_admin_image: the row of the admin is written with the url
set_admin_image(tbl, admin_id, image_url) ==
    (tbl \ AdminRows(tbl, admin_id))
        \cup {[admin_id |-> str(admin_id), custom_image |-> image_url]}

\* get_custom_image: the stored url, or None when there is none or the
\* backend call raised (ok is the outcome of the call)
get_custom_image(tbl, admin_id, ok) ==
    LET data == AdminRows(tbl, admin_id)
    IN  IF ok /\ data # {} /\ (CHOOSE r \in data : TRUE).custom_image # NoUrl
        THEN (CHOOSE r \in data : TRUE).custom_image
        ELSE NoUrl

\* make_embed_for_admin: the title, the thumbnail, the four averages with
\* the stars of the overall one, and the footer
make_embed_for_admin(admin_name, thumb_url, stats) ==
    [title |-> admin_name,
     thumbnail |-> thumb_url,
     total |-> Fmt2(stats.avg_total),
     stars |-> stars(stats.avg_total),
     service |-> Fmt2(stats.avg_service),
     solving |-> Fmt2(stats.avg_solving),
     communication |-> Fmt2(stats.avg_communication),
     voters |-> stats.voters]

\* make_embed with thumb = discord_avatar or custom: the avatar comes first
make_embed_avatar(stats, tbl, admin_id, lookup, okImage) ==
    LET display == resolve_admin_display(admin_id, lookup)
        custom == get_custom_image(tbl, admin_id, okImage)
        thumb == IF display[2] # NoUrl THEN display[2] ELSE custom
    IN  make_embed_for_admin(display[1], thumb, stats)

\* make_embed from the statistics on: custom or discord_avatar
make_embed(stats, tbl, admin_id, lookup, okImage) ==
    LET display == resolve_admin_display(admin_id, lookup)
        custom == get_custom_image(tbl, admin_id, okImage)
        thumb == IF custom # NoUrl THEN custom ELSE display[2]
    IN  make_embed_for_admin(display[1], thumb, stats)

\* no review card of the admin on screen
NoCard == [posted |-> FALSE]

\* no helper applied yet, and the value one returned
NoResult == [done |-> FALSE]
Returned(x) == [done |-> TRUE, value |-> x]

\* the views, the handlers and the records of calls when the bot has started
Idle ==
    /\ views = {}
    /\ handlers = EmptyBag
    /\ lastCall = NoCall
    /\ lastWrite = [k \in Keys |-> NoCall]
    /\ chosen = [k \in Keys |-> RatingDraft]
    /\ picked = [k \in Keys |-> RatingDraft]
    /\ rendering = EmptyBag
    /\ result = NoResult

\* the module has been loaded: drafts = {}
Started ==
    /\ Idle
    /\ drafts = [k \in {} |-> RatingDraft]

\* the bot has started: nothing is stored and no card is on screen
Init ==
    /\ Started
    /\ ratings = {}
    /\ admins = {}
    /\ arg = Rat(0, 1)
    /\ card = [a \in Admins |-> NoCard]

\* the card a first !setupreview without attachment posts for an admin who
\* is a member of the guild
FirstCard(a) ==
    make_embed(fetch_stats(Execute({}, a, FALSE)), ensure_admin({}, a), a, "member", TRUE)

\* the bot has started and the card of every admin has been posted
Posted ==
    /\ Started
    /\ ratings = {}
    /\ arg = Rat(0, 1)
    /\ admins = UNION {ensure_admin({}, a) : a \in Admins}
    /\ card = [a \in Admins |-> FirstCard(a)]

\* CategorySelect.callback, on the card of the admin: the draft is created
\* if absent and the StarSelectView of the category is sent to the user
CategorySelectCallback(admin_id, user, cat) ==
    /\ card[admin_id] # NoCard
    /\ Cardinality(views \cup {<<admin_id, cat, user>>}) <= MaxViews
    /\ drafts' = DraftsSet(drafts, <<admin_id, user>>, GetOrCreate(drafts, <<admin_id, user>>))
    /\ views' = views \cup {<<admin_id, cat, user>>}
    /\ UNCHANGED <<ratings, handlers, lastCall, lastWrite, chosen, picked, cardVars, funVars>>

\* an on_timeout that drops the draft of the user along with the view
ViewTimeout_expire(v) ==
    /\ v \in views
    /\ views' = views \ {v}
    /\ drafts' = DraftsPop(drafts, <<v[1], v[3]>>)
    /\ UNCHANGED <<ratings, handlers, lastCall, lastWrite, chosen, picked, cardVars, funVars>>

\* StarSelectView(timeout=60): the view stops accepting selections
ViewTimeout(v) ==
    /\ v \in views
    /\ views' = views \ {v}
    /\ UNCHANGED <<drafts, ratings, handlers, lastCall, lastWrite, chosen, picked, cardVars, funVars>>

\* StarSelect.callback, first step: the user picks a value in an open view
\* and the handler suspends in interaction.response.defer
StarDefer(v) ==
    /\ v \in views
    /\ InFlight < MaxInFlight
    /\ handlers' = handlers (+) One([pc |-> "deferred", admin_id |-> v[1], category |-> v[2],
                                      user |-> v[3]])
    /\ UNCHANGED <<drafts, ratings, views, lastCall, lastWrite, chosen, picked, cardVars, funVars>>

\* the handler h once it has run up to interaction.followup.send
Followup(h, reply) ==
    [pc |-> "followup", admin_id |-> h.admin_id, user |-> h.user, reply |-> reply]

\* StarSelect.callback, second step: from the resumption after the defer
\* to the suspension in interaction.followup.send.  score is the value the
\* user picked, self.values[0], which the handler first reads here; ok is
\* the outcome of the backend call.
StarBody(h, score, ok) ==
    /\ BagIn(h, handlers)
    /\ h.pc = "deferred"
    /\ \E out \in {StarCallback(drafts, ratings, h.admin_id, h.user, h.category, score, ok)} :
           /\ drafts' = out.drafts
           /\ ratings' = out.ratings
           /\ handlers' = (handlers (-) One(h)) (+) One(Followup(h, out.reply))
    /\ UNCHANGED <<views, cardVars, funVars>>

\* the history of the successful writes after the second step of h
Wrote(h, score, ok) ==
    LET key == <<h.admin_id, h.user>>
        out == StarCallback(drafts, ratings, h.admin_id, h.user, h.category, score, ok)
    IN  lastWrite' = IF out.reply = "thanks"
                     THEN [lastWrite EXCEPT ![key] = <<out.call[3], out.call[4], out.call[5]>>]
                     ELSE lastWrite

\* the history after the second step of h
Ran(h, score, ok) ==
    LET key == <<h.admin_id, h.user>>
        out == StarCallback(drafts, ratings, h.admin_id, h.user, h.category, score, ok)
    IN  /\ Wrote(h, score, ok)
        /\ lastCall' = IF out.call = NoCall THEN lastCall ELSE Append(out.call, ok)
        /\ chosen' = IF out.reply = "self" THEN chosen
                     ELSE [chosen EXCEPT ![key][h.category] = score]
        /\ picked' = IF out.reply = "self" THEN picked
                     ELSE IF out.call # NoCall /\ ok THEN [picked EXCEPT ![key] = RatingDraft]
                     ELSE [picked EXCEPT ![key][h.category] = score]

\* the failure line of line 232 that quotes the error of a send, not of
\* the backend
FailedSend == "failed_send"

\* StarSelect.callback, last step: the follow-up message is sent and the
\* handler returns; okSend is the outcome of the send.  The send of the
\* thanks is inside the try of line 227: when it raises, the handler goes
\* on to send the failure line, the row written and the draft popped.  An
\* error of any other send leaves the handler.
StarFollowup(h, okSend) ==
    /\ BagIn(h, handlers)
    /\ h.pc = "followup"
    /\ handlers' = IF h.reply = "thanks" /\ ~okSend
                   THEN (handlers (-) One(h)) (+) One(Followup(h, FailedSend))
                   ELSE handlers (-) One(h)
    /\ UNCHANGED <<drafts, ratings, views, lastCall, lastWrite, chosen, picked, cardVars, funVars>>

\* the categories a user selects on the card of an admin.  The handler
\* turns the admin away before it reads the category, so the admin tries
\* one category only.
Selects(admin_id, user) == IF user = admin_id THEN {"service"} ELSE CATEGORIES

Next ==
    \/ \E a \in Admins, u \in Users : \E c \in Selects(a, u) :
          CategorySelectCallback(a, u, c)
    \/ \E v \in views : ViewTimeout(v)
    \/ \E v \in views : StarDefer(v)
    \/ \E h \in BagToSet(handlers), s \in ScoreInputs, ok \in BOOLEAN :
          StarBody(h, s, ok) /\ Ran(h, s, ok)
    \/ \E h \in BagToSet(handlers), ok \in BOOLEAN : StarFollowup(h, ok)

\* the rating flow on posted cards, with the handlers interleaved at their
\* suspension points
Spec == Posted /\ [][Next]_vars

(***************************************************************************)
(* The review card.  make_embed reads the ratings in fetch_stats and then  *)
(* suspends in resolve_admin_display; when it resumes it reads the custom  *)
(* image and builds the embed, and its caller suspends in the send or the  *)
(* edit of the message.  Commands and refreshes run concurrently: each     *)
(* leaves a make_embed call in flight, and other commands run at both      *)
(* suspensions.  The model keeps one card per admin on screen.             *)
(***************************************************************************)
Attachments == {"none", "image", "file"}

\* the backend calls of setupreview that can raise before make_embed suspends
Failures == {"none", "ensure_admin", "set_admin_image", "fetch_stats"}

\* a mention that the converter of discord.Member does not resolve
NotFound == -1

\* make_embed suspended in resolve_admin_display, the statistics read
Resolving(admin_id, stats, op) ==
    [pc |-> "resolve", admin_id |-> admin_id, stats |-> stats, op |-> op]

\* make_embed has returned, and its caller is suspended in the send or
\* the edit of the embed
Sending(admin_id, stats, embed, op) ==
    [pc |-> "send", admin_id |-> admin_id, stats |-> stats, embed |-> embed, op |-> op]

\* make_embed and its caller from fetch_stats to the first suspension.
\* cached says that the member is in the cache of the guild: the custom
\* image is then read at once, okImage being the outcome of the read.
Suspend(admin_id, tbl, stats, op, cached, okImage) ==
    IF cached
    THEN Sending(admin_id, stats, make_embed(stats, tbl, admin_id, Cached, okImage), op)
    ELSE Resolving(admin_id, stats, op)

\* @commands.has_guild_permissions(administrator=True) left out: nobody is
\* turned away
Declined_nobody(permitted) == FALSE

\* the command is turned away by the permission check
Declined(permitted) == ~permitted

\* the error the framework raises before the body of setupreview runs: the
\* checks of the decorator come before the conversion of the argument.
\* guild says that the command is written in a guild, permitted that its
\* author is an administrator there.
CommandError(guild, permitted, target) ==
    IF ~guild THEN "NoPrivateMessage"
    ELSE IF Declined(permitted) THEN "MissingPermissions"
    ELSE IF target = NotFound THEN "MemberNotFound"
    ELSE "none"

\* !setupreview up to the suspension in make_embed.  target is the member
\* named, None or NotFound, att is what is attached to the command, fail
\* names the backend call that raises, absent says that the backend sends
\* no data for an empty selection, cached and okImage are those of Suspend.
setupreview(guild, permitted, target, att, fail, absent, cached, okImage) ==
    /\ IF CommandError(guild, permitted, target) # "none" \/ target = None
       THEN UNCHANGED <<admins, rendering>>
       ELSE LET image_url == IF att = "image" THEN CustomUrl ELSE NoUrl
                ensured == ensure_admin(admins, target)
                imaged == IF image_url # NoUrl
                          THEN set_admin_image(ensured, target, image_url)
                          ELSE ensured
            IN  IF fail = "ensure_admin"
                THEN UNCHANGED <<admins, rendering>>
                ELSE IF fail = "set_admin_image" /\ image_url # NoUrl
                THEN admins' = ensured /\ UNCHANGED rendering
                ELSE IF fail = "fetch_stats"
                THEN admins' = imaged /\ UNCHANGED rendering
                ELSE /\ InFlight < MaxInFlight
                     /\ admins' = imaged
                     /\ rendering' = rendering (+)
                            One(Suspend(target, imaged,
                                        fetch_stats(Execute(ratings, target, absent)),
                                        "send", cached, okImage))
    /\ UNCHANGED <<flowVars, card>>

\* a notice and what follows it: a notice of setupreview that cannot be
\* sent raises out of the command, and setupreview_error then tries the
\* error line
Noticed(notice, okNotice) == IF okNotice THEN <<notice>> ELSE <<notice, "error">>

\* the messages setupreview and setupreview_error try to send to the
\* channel, in order, up to the return or the suspension in make_embed:
\* none on MissingPermissions, the error line on any other error of the
\* framework, the usage line when no member is named, the failure line
\* when a backend call raised, and none yet when make_embed is under way.
\* okNotice is the outcome of the send of the usage or the failure line.
setupreview_sent(guild, permitted, target, att, fail, okNotice) ==
    IF CommandError(guild, permitted, target) = "MissingPermissions" THEN << >>
    ELSE IF CommandError(guild, permitted, target) # "none" THEN <<"error">>
    ELSE IF target = None THEN Noticed("usage", okNotice)
    ELSE IF fail = "ensure_admin" \/ fail = "fetch_stats"
            \/ (fail = "set_admin_image" /\ att = "image")
    THEN Noticed("failed", okNotice)
    ELSE << >>

\* the command gets as far as make_embed
Starts(guild, permitted, target, att, fail) ==
    /\ CommandError(guild, permitted, target) = "none"
    /\ target # None
    /\ setupreview_sent(guild, permitted, target, att, fail, TRUE) = << >>

\* !setupreview, the messages it sends left aside
SetupReview(guild, permitted, target, att, fail, absent, cached, okImage) ==
    /\ setupreview(guild, permitted, target, att, fail, absent, cached, okImage)
    /\ UNCHANGED funVars

\* !setupreview, with the command and the messages it sent on record
SetupReviewCommand(guild, permitted, target, att, fail, absent, cached, okImage, okNotice) ==
    /\ setupreview(guild, permitted, target, att, fail, absent, cached, okImage)
    /\ arg' = [op |-> "setupreview", guild |-> guild, permitted |-> permitted,
               target |-> target, att |-> att, fail |-> fail, okImage |-> okImage]
    /\ result' = Returned(setupreview_sent(guild, permitted, target, att, fail, okNotice))

\* a refresh that starts the rating sessions afresh: the dict is cleared
Refresh_reset(admin_id, absent, okStats, cached, okImage) ==
    /\ card[admin_id] # NoCard
    /\ okStats => InFlight < MaxInFlight
    /\ rendering' = IF okStats
                    THEN rendering (+)
                         One(Suspend(admin_id, admins,
                                     fetch_stats(Execute(ratings, admin_id, absent)),
                                     "edit", cached, okImage))
                    ELSE rendering
    /\ drafts' = [k \in {} |-> RatingDraft]
    /\ UNCHANGED <<ratings, views, handlers, lastCall, lastWrite, chosen, picked>>
    /\ UNCHANGED <<admins, card>>

\* ReviewView.refresh from the resumption after its defer up to the first
\* suspension of make_embed or of the edit; okStats is the outcome of the
\* backend call of fetch_stats, cached and okImage are those of Suspend
Refresh(admin_id, absent, okStats, cached, okImage) ==
    /\ card[admin_id] # NoCard
    /\ okStats => InFlight < MaxInFlight
    /\ rendering' = IF okStats
                    THEN rendering (+)
                         One(Suspend(admin_id, admins,
                                     fetch_stats(Execute(ratings, admin_id, absent)),
                                     "edit", cached, okImage))
                    ELSE rendering
    /\ UNCHANGED <<flowVars, admins, card>>

\* the refresh with its inputs and what it tried to send on record: the
\* line of lines 247-248 when fetch_stats raised
RefreshCommand(admin_id, absent, okStats, cached, okImage) ==
    /\ Refresh(admin_id, absent, okStats, cached, okImage)
    /\ arg' = [op |-> "refresh", admin_id |-> admin_id, okImage |-> okImage]
    /\ result' = Returned(IF okStats THEN << >> ELSE <<"refresh_failed">>)

\* make_embed of the call r from the return of resolve_admin_display to
\* the suspension of its caller in the send or the edit: lookup is how
\* resolve_admin_display ends (fetch_member, or fetch_user after it, or
\* neither; nothing is read between the two fetches) and okImage is the
\* outcome of get_custom_image, which reads the table of admins now
Resume(r, lookup, okImage) ==
    /\ BagIn(r, rendering)
    /\ r.pc = "resolve"
    /\ rendering' = (rendering (-) One(r)) (+)
                        One(Sending(r.admin_id, r.stats,
                                    make_embed(r.stats, admins, r.admin_id, lookup, okImage),
                                    r.op))
    /\ UNCHANGED <<flowVars, admins, card>>

\* the send or the edit of the call r returns: the message shows the embed
\* built before the suspension, or the call has failed and the message on
\* screen is left as it is
Deliver(r, okSend) ==
    /\ BagIn(r, rendering)
    /\ r.pc = "send"
    /\ card' = IF okSend THEN [card EXCEPT ![r.admin_id] = r.embed] ELSE card
    /\ rendering' = rendering (-) One(r)
    /\ UNCHANGED <<flowVars, admins>>

\* the messages tried from the send or the edit on: the card, and
\* when it cannot be sent the failure line of setupreview, or the line of
\* ReviewView.refresh, whose own failure is swallowed
make_embed_sent(op, okSend, okNotice) ==
    IF okSend THEN <<"card">>
    ELSE IF op = "send" THEN <<"card">> \o Noticed("failed", okNotice)
    ELSE <<"card", "refresh_failed">>

\* the resumption of make_embed, with its inputs on record: no message is
\* sent before the next suspension
ResumeCommand(r, lookup, okImage) ==
    /\ Resume(r, lookup, okImage)
    /\ arg' = [op |-> "resume", render |-> r, lookup |-> lookup, okImage |-> okImage]
    /\ result' = Returned(<< >>)

\* the return of the send or the edit, with its outcome and the messages
\* tried on record
RenderCommand(r, okSend, okNotice) ==
    /\ Deliver(r, okSend)
    /\ arg' = [op |-> "render", render |-> r, okSend |-> okSend]
    /\ result' = Returned(make_embed_sent(r.op, okSend, okNotice))

\* the handlers of a bag that are suspended in the defer
Deferred(bag) == {h \in BagToSet(bag) : h.pc = "deferred"}

\* the scores picked next to the cards: both ends of the scale for the
\* service, the top for the rest
CardScores(cat) == IF cat = "service" THEN ScoreInputs ELSE {MaxStar}

\* the commands come without attachment, a command that makes no backend
\* call has none that fails, the admin is not in the cache of the guild
\* and is found there, the custom image is read and the rater alone rates
NextCard ==
    \/ \E g \in BOOLEAN, p \in BOOLEAN, t \in Admins \cup {None, NotFound}, f \in Failures,
          ab \in BOOLEAN :
          /\ (CommandError(g, p, t) = "none" /\ t # None) \/ (f = "none" /\ ~ab)
          /\ SetupReview(g, p, t, "none", f, ab, FALSE, TRUE)
    \/ \E a \in Admins, ab \in BOOLEAN, ok \in BOOLEAN :
          Refresh(a, ab, ok, FALSE, TRUE) /\ UNCHANGED funVars
    \/ \E r \in BagToSet(rendering) : Resume(r, "member", TRUE) /\ UNCHANGED funVars
    \/ \E r \in BagToSet(rendering), okSend \in BOOLEAN :
          Deliver(r, okSend) /\ UNCHANGED funVars
    \/ \E a \in Admins, u \in Users \ Admins, c \in CATEGORIES :
          CategorySelectCallback(a, u, c)
    \/ \E v \in views : ViewTimeout(v)
    \/ \E v \in views : StarDefer(v)
    \/ \E h \in Deferred(handlers), ok \in BOOLEAN : \E s \in CardScores(h.category) :
          StarBody(h, s, ok) /\ Wrote(h, s, ok) /\ UNCHANGED <<lastCall, chosen, picked>>
    \/ \E h \in BagToSet(handlers), ok \in BOOLEAN : StarFollowup(h, ok)

\* the cards and the ratings from the start of the bot: the commands, the
\* refreshes and the rating handlers interleaved at their suspension
\* points, with the successful writes on record
SpecCard == Init /\ [][NextCard]_vars

(***************************************************************************)
(* fetch_stats and stars applied on their own.                             *)
(***************************************************************************)
\* an admin without a card, whose rows fetch_stats must leave out
OtherAdmin == 7

\* the score triples a rater can have stored
Triples == StarOptions \X StarOptions \X StarOptions

\* a table of ratings: a row of another admin, and one row of the admin
\* for each rater f gives scores to
TableOf(admin_id, f) ==
    {RatingRow(OtherAdmin, 1, MaxStar, MaxStar, MaxStar)}
        \cup {RatingRow(admin_id, u, f[u][1], f[u][2], f[u][3]) : u \in DOMAIN f}

\* the place of a score triple in the order of the triples
Rank(t) == (t[1] * (MaxStar + 1) + t[2]) * (MaxStar + 1) + t[3]

\* the raters are numbered in the order of their triples: no helper reads
\* the rater of a row, so that the tables left out are renamings of these
Ordered(f) == \A u \in DOMAIN f : u + 1 \in DOMAIN f => Rank(f[u]) <= Rank(f[u + 1])

\* the ratings are those of the first n raters of the admin
HoldsRows(admin_id, n) ==
    \E f \in [2..(n + 1) -> Triples] : Ordered(f) /\ ratings = TableOf(admin_id, f)

\* the admins rows of the admins that rows of ratings name: ensure_admin
\* wrote them before the cards of these admins were posted
Profiles(rows) == {[admin_id |-> id, custom_image |-> NoUrl] : id \in {r.admin_id : r \in rows}}

\* the bot has started on a backend that holds ratings already
InitStats ==
    /\ Started
    /\ \E a \in Admins, n \in 0..MaxRows : HoldsRows(a, n)
    /\ admins = Profiles(ratings)
    /\ arg = Rat(0, 1)
    /\ card = [a \in Admins |-> NoCard]

\* fetch_stats(admin_id) on the table; absent says that the backend sends
\* no data for an empty selection
FetchStats(admin_id, absent) ==
    /\ arg' = [op |-> "fetch_stats", admin_id |-> admin_id,
               present |-> Execute(ratings, admin_id, absent).present]
    /\ result' = Returned(fetch_stats(Execute(ratings, admin_id, absent)))
    /\ UNCHANGED <<flowVars, cardVars>>

\* make_embed_for_admin on the statistics of the table
MakeEmbedForAdmin(admin_id, absent) ==
    /\ arg' = [op |-> "make_embed_for_admin", admin_id |-> admin_id]
    /\ result' = Returned(make_embed_for_admin("display_name", AvatarUrl,
                                                fetch_stats(Execute(ratings, admin_id, absent))))
    /\ UNCHANGED <<flowVars, cardVars>>

NextStats ==
    \/ \E a \in Admins, ab \in BOOLEAN : FetchStats(a, ab)
    \/ \E a \in Admins, ab \in BOOLEAN : MakeEmbedForAdmin(a, ab)

SpecStats == InitStats /\ [][NextStats]_vars

\* the averages on the fixed-point grid, up to one star above the scale
Grid == {Rat(k, Scale) : k \in 0..((MaxStar + 1) * Scale)}

\* the bot has started and an average is about to be rendered
InitStars ==
    /\ Started
    /\ ratings = {}
    /\ admins = {}
    /\ card = [a \in Admins |-> NoCard]
    /\ arg \in Grid

\* stars(v) of the double the grid point denotes
ApplyStars ==
    /\ result' = Returned(stars(Literal(arg)))
    /\ UNCHANGED <<flowVars, cardVars, arg>>

NextStars == ApplyStars

SpecStars == InitStars /\ [][NextStars]_vars

\* the bot has started on a backend that holds at most one rating
InitPost ==
    /\ Started
    /\ \E a \in Admins, n \in 0..1 :
           ratings = TableOf(a, [u \in 2..(n + 1) |-> <<MinStar, MaxStar, MaxStar>>])
    /\ admins = Profiles(ratings)
    /\ card = [a \in Admins |-> NoCard]
    /\ arg = Rat(0, 1)

\* a command that makes no backend call has none that fails, one that
\* sends no notice has none that is lost; the lookup of a member who is
\* not cached finds the member, the custom image is read and the backend
\* sends data for an empty selection
NextPost ==
    \/ \E g \in BOOLEAN, p \in BOOLEAN, t \in Admins \cup {None, NotFound},
          att \in Attachments, f \in Failures, cached \in BOOLEAN, okNotice \in BOOLEAN :
          /\ (CommandError(g, p, t) = "none" /\ t # None) \/ f = "none"
          /\ Starts(g, p, t, att, f) \/ ~cached
          /\ okNotice \/ Len(setupreview_sent(g, p, t, att, f, FALSE)) = 2
          /\ SetupReviewCommand(g, p, t, att, f, FALSE, cached, TRUE, okNotice)
    \/ \E a \in Admins, ok \in BOOLEAN, cached \in BOOLEAN :
          /\ ok \/ ~cached
          /\ RefreshCommand(a, FALSE, ok, cached, TRUE)
    \/ \E r \in BagToSet(rendering) : ResumeCommand(r, "member", TRUE)
    \/ \E r \in BagToSet(rendering), okSend \in BOOLEAN, okNotice \in BOOLEAN :
          /\ okNotice \/ (r.op = "send" /\ ~okSend)
          /\ RenderCommand(r, okSend, okNotice)

\* the commands with every author, target, attachment and failure of the
\* backend, interleaved with the refreshes at the suspensions of make_embed
\* and of the send, on ratings that do not change
SpecPost == InitPost /\ [][NextPost]_vars

\* the commands are those of an administrator who names the admin in a
\* guild, no backend call raises and every notice is sent; the lookup of
\* the member and the read of the custom image end in every way, the image
\* being read at once only when the member is cached
NextImage ==
    \/ \E t \in Admins, att \in Attachments, cached \in BOOLEAN, okImage \in BOOLEAN :
          /\ cached \/ okImage
          /\ SetupReviewCommand(TRUE, TRUE, t, att, "none", FALSE, cached, okImage, TRUE)
    \/ \E a \in Admins, cached \in BOOLEAN, okImage \in BOOLEAN :
          /\ cached \/ okImage
          /\ RefreshCommand(a, FALSE, TRUE, cached, okImage)
    \/ \E r \in BagToSet(rendering), l \in Lookups, okImage \in BOOLEAN :
          ResumeCommand(r, l, okImage)
    \/ \E r \in BagToSet(rendering), okSend \in BOOLEAN :
          RenderCommand(r, okSend, TRUE)

\* the cards posted and refreshed with every attachment and every outcome
\* of the lookups, interleaved at the suspensions of make_embed and of the
\* send, on ratings that do not change
SpecImage == InitPost /\ [][NextImage]_vars

\* a user who has rated the admin and does not act in the model
Bystander == 3

\* the sessions of others: the bystander with the admin, and the rater
\* with another admin
OtherKeys == {<<a, Bystander>> : a \in Admins} \cup {<<OtherAdmin, u>> : u \in Users \ Admins}

\* the card of every admin has been posted, and the others have each
\* rated once and picked one score of their next rating
InitSessions ==
    /\ Idle
    /\ ratings = {RatingRow(k[1], k[2], MaxStar, MinStar, MaxStar) : k \in OtherKeys}
    /\ drafts = [k \in OtherKeys |-> SetAttr(RatingDraft, "solving", MaxStar)]
    /\ admins = Profiles(ratings)
    /\ card = [a \in Admins |->
                  make_embed(fetch_stats(Execute(ratings, a, FALSE)), admins, a, "member", TRUE)]
    /\ arg = Rat(0, 1)

\* the rating flow of Spec next to the sessions of others
SpecSessions == InitSessions /\ [][Next]_vars

(***************************************************************************)
(* Properties.                                                             *)
(***************************************************************************)
\* C1: the ratings table holds at most one row per (admin_id, rater_id), and
\* that row carries the scores of the latest successful write for the pair;
\* a pair without a successful write has no row.
C1_OneRecordPerPair ==
    \A key \in Keys :
        /\ Cardinality(RowsOf(ratings, key)) <= 1
        /\ lastWrite[key] = NoCall => RowsOf(ratings, key) = {}
        /\ lastWrite[key] # NoCall =>
               /\ RowsOf(ratings, key) # {}
               /\ \A r \in RowsOf(ratings, key) : Triple(r) = lastWrite[key]

\* C1 witness: a pair has a stored row, a later write for the pair with
\* other scores failed, and the row still carries the successful write.
C1_Witness ==
    \E key \in Keys :
        /\ lastCall # NoCall
        /\ lastWrite[key] # NoCall
        /\ <<lastCall[1], lastCall[2]>> = key
        /\ ~lastCall[6]
        /\ <<lastCall[3], lastCall[4], lastCall[5]>> # lastWrite[key]
        /\ \E r \in RowsOf(ratings, key) : Triple(r) = lastWrite[key]

\* the follow-up records of a bag of handlers
Followups(bag) == {f \in BagToSet(bag) : f.pc = "followup"}

\* the texts of the follow-up messages of StarSelect.callback
Replies == {"self", "saved", "thanks", "failed"}

\* this step is the body of the suspended handler h: h leaves the deferred
\* handlers
BodyOf(h) == h.pc = "deferred" /\ CopiesIn(h, handlers') < CopiesIn(h, handlers)

\* this step is the body of the suspended handler h and it replies r
Replied(h, r) ==
    /\ BodyOf(h)
    /\ CopiesIn(Followup(h, r), handlers') > CopiesIn(Followup(h, r), handlers)

\* the scores of a draft in the order upsert_rating takes them
Scores(draft) == <<draft.service, draft.solving, draft.communication>>

\* the picks of a key once the pick of handler h is added to them
PicksWith(h) ==
    LET key == <<h.admin_id, h.user>>
    IN  [c \in CATEGORIES |-> IF c = h.category THEN chosen'[key][c] ELSE picked[key][c]]

\* C2: every stored row has its three scores set, each an integer in
\* [1,5], and upsert_rating was never called with an unset score.
C2_NeverPartial ==
    /\ \A r \in ratings : \A c \in CATEGORIES : r[c] \in StarOptions
    /\ lastCall # NoCall => \A i \in 3..5 : lastCall[i] \in StarOptions

\* C2 witness: a row is stored while the registry holds a draft of the same
\* pair with some field set and some field unset.
C2_Witness ==
    \E key \in DOMAIN drafts :
        /\ HasNone(drafts[key])
        /\ drafts[key] # RatingDraft
        /\ RowsOf(ratings, key) # {}

\* C3: a star selection makes the persistence call exactly when, with it,
\* all three categories have been picked since the key had no draft; the
\* call, and the row stored when it succeeds, carry for each category the
\* last score picked for it.
C3_WriteAtCompletion ==
    [][\A h \in BagToSet(handlers) : \A r \in Replies \ {"self"} :
          Replied(h, r) =>
              LET key == <<h.admin_id, h.user>>
                  P == PicksWith(h)
              IN  /\ (r = "saved") <=> (\E c \in CATEGORIES : P[c] = None)
                  /\ r = "saved" => lastCall' = lastCall /\ ratings' = ratings
                  /\ r # "saved" => lastCall' = <<key[1], key[2], P.service, P.solving,
                                                   P.communication, r = "thanks">>
                  /\ r = "thanks" =>
                         RowsOf(ratings', key) =
                             {RatingRow(key[1], key[2], P.service, P.solving, P.communication)}
      ]_vars

\* C3 witness: for one rater a follow-up of a pick that was stored in the
\* draft and the follow-up of the completing pick are both on their way,
\* the draft is gone and the row holds the written scores.
C3_Witness ==
    \E f, g \in Followups(handlers) :
        /\ f.user = g.user /\ f.admin_id = g.admin_id
        /\ f.reply = "saved" /\ g.reply = "thanks"
        /\ <<f.admin_id, f.user>> \notin DOMAIN drafts
        /\ \E row \in ratings : Triple(row) = lastWrite[<<f.admin_id, f.user>>]

\* C4: a star selection by the admin of the card is answered with the
\* self-rating error and changes neither the draft registry nor the ratings
\* table, and no stored row has admin_id = rater_id.
C4_NoSelfRating ==
    /\ [][\A h \in BagToSet(handlers) :
            (BodyOf(h) /\ h.user = h.admin_id) =>
                (Replied(h, "self") /\ drafts' = drafts /\ ratings' = ratings)
        ]_vars
    /\ [](\A row \in ratings : row.admin_id # row.rater_id)

\* C4 witness: the self-rating error is on its way to the admin.
C4_Witness ==
    \E f \in Followups(handlers) : f.user = f.admin_id /\ f.reply = "self"

\* C5: when the completing upsert_rating call fails, the rater is told so,
\* the ratings table is unchanged and the complete draft stays in the
\* registry; the next star selection for the key calls upsert_rating with
\* the preserved fields and the new pick, and the row is stored if the
\* backend succeeds.
C5_DraftSurvivesFailure ==
    [][\A h \in BagToSet(handlers) : \A r \in Replies \ {"self"} :
          Replied(h, r) =>
              LET key == <<h.admin_id, h.user>>
                  P == PicksWith(h)
              IN  /\ (r # "saved" /\ lastCall' # NoCall /\ ~lastCall'[6]) <=> (r = "failed")
                  /\ r = "failed" =>
                         /\ ratings' = ratings
                         /\ key \in DOMAIN drafts'
                         /\ Scores(drafts'[key]) = Scores(P)
                         /\ ~HasNone(drafts'[key])
                  /\ (key \in DOMAIN drafts /\ ~HasNone(drafts[key])) =>
                         LET kept == [c \in CATEGORIES |->
                                         IF c = h.category THEN chosen'[key][c]
                                         ELSE drafts[key][c]]
                         IN  /\ r # "saved"
                             /\ lastCall' = <<key[1], key[2], kept.service, kept.solving,
                                              kept.communication, r = "thanks">>
                             /\ r = "thanks" =>
                                    /\ key \notin DOMAIN drafts'
                                    /\ RowsOf(ratings', key) =
                                           {RatingRow(key[1], key[2], kept.service,
                                                      kept.solving, kept.communication)}
      ]_vars

\* C5 witness: the failure message of a write is still on its way while the
\* latest call for the same key has succeeded, so the retry was stored.
C5_Witness ==
    \E f \in Followups(handlers) :
        /\ f.reply = "failed"
        /\ lastCall # NoCall
        /\ <<lastCall[1], lastCall[2]>> = <<f.admin_id, f.user>>
        /\ lastCall[6]
        /\ <<f.admin_id, f.user>> \notin DOMAIN drafts
        /\ \E row \in RowsOf(ratings, <<f.admin_id, f.user>>) :
               Triple(row) = <<lastCall[3], lastCall[4], lastCall[5]>>

\* C6: no pick is lost, however the handlers of a rater interleave: for
\* every key and category the latest score picked is held by the draft of
\* the key or by its stored row.
C6_NoLostUpdate ==
    \A key \in Keys : \A c \in CATEGORIES :
        chosen[key][c] # None =>
            \/ key \in DOMAIN drafts /\ drafts[key][c] = chosen[key][c]
            \/ \E row \in RowsOf(ratings, key) : row[c] = chosen[key][c]

\* C6 witness: two handlers of one rater have both run while both were in
\* flight, and the draft, never written so far, holds two categories.
C6_Witness ==
    \E key \in DOMAIN drafts :
        /\ lastWrite[key] = NoCall
        /\ Cardinality({c \in CATEGORIES : drafts[key][c] # None}) = 2
        /\ \E f \in Followups(handlers) :
               /\ <<f.admin_id, f.user>> = key
               /\ f.reply = "saved"
               /\ CopiesIn(f, handlers) = 2

\* the double v lies within k halves of a unit in its last place of the
\* fraction p / q, for q up to 9 and v below 2^27: twice the significand
\* times q is compared with p scaled, in two parts of 27 bits.  With k = 1,
\* v is a double nearest to p / q; with k = 0, v is p / q; k = 4, two units
\* in the last place, covers the roundings of the two sums and the
\* division of avg_total.
Within(v, p, q, k) ==
    IF p = 0 THEN v = Zero
    ELSE /\ v # Zero
         /\ v.exp \in 0..26
         /\ p >= (q * Pow2(v.exp)) - q
         /\ p <= (q * Pow2(v.exp + 1)) + q
         /\ LET qu == 2 * q * (v.m0 \div Pow2(14))
                L == ((qu % Pow2(13)) * Pow2(14)) + (2 * q * (v.m0 % Pow2(14)))
                H == (2 * q * v.m1) + (qu \div Pow2(13)) + (L \div Low)
                         - (p * Pow2(26 - v.exp))
                l == L % Low
            IN  \/ H = 0 /\ l <= k * q
                \/ H = -1 /\ Low - l <= k * q

\* the raters with a successful write for the admin
Voters(admin_id) == {u \in Users : lastWrite[<<admin_id, u>>] # NoCall}

\* the sum over these raters of the i-th score of their latest successful
\* write, counted score by score
Written(admin_id, i) ==
    LET N(k) == Cardinality({u \in Voters(admin_id) : lastWrite[<<admin_id, u>>][i] = k})
    IN  N(1) + 2 * N(2) + 3 * N(3) + 4 * N(4) + 5 * N(5)

\* the text shows the double v to the nearest hundredth: 100 * v lies
\* between two integers, and the text shows the nearer one
Shows(hundredths, v) ==
    LET x == Times5(Times5(v))
        sh == ShiftRight(x.m1, x.m0, 50 - v.exp)
    IN  \/ hundredths = sh.m0 /\ (sh.guard = 0 \/ ~sh.sticky)
        \/ hundredths = sh.m0 + 1 /\ sh.guard = 1

\* this step starts the make_embed call r: fetch_stats is read and the
\* call joins the calls in flight
Reads(r) ==
    /\ CopiesIn(r, rendering') > CopiesIn(r, rendering)
    /\ BagCardinality(rendering') > BagCardinality(rendering)

\* this step builds the embed of the call s, suspended in its send or edit
Built(s) ==
    /\ s.pc = "send"
    /\ CopiesIn(s, rendering') > CopiesIn(s, rendering)

\* this step ends the make_embed call r: its send or edit returns
Resumes(r) ==
    /\ CopiesIn(r, rendering') < CopiesIn(r, rendering)
    /\ BagCardinality(rendering') < BagCardinality(rendering)

\* the voter count a refresh of the card would read in the table
Counted(table, admin_id) == fetch_stats(Execute(table, admin_id, FALSE)).voters

\* C7: the voter count a refresh shows for an admin is the number of
\* distinct raters with a successful write for the admin when the refresh
\* reads the table, and the averages it shows are those of their latest
\* writes, as doubles; a first complete submission of a rater raises the
\* count by one, a resubmission leaves it unchanged.
C7_VotersAfterRefresh ==
    [][\A a \in Admins :
        /\ \A r \in BagToSet(rendering') :
               (Reads(r) /\ r.admin_id = a) =>
                   LET st == r.stats
                       n == Cardinality(Voters(a))
                   IN  /\ st.voters = n
                       /\ n > 0 => /\ Within(st.avg_service, Written(a, 1), n, 1)
                                   /\ Within(st.avg_solving, Written(a, 2), n, 1)
                                   /\ Within(st.avg_communication, Written(a, 3), n, 1)
                                   /\ Within(st.avg_total,
                                             Written(a, 1) + Written(a, 2) + Written(a, 3),
                                             3 * n, 4)
        /\ \A r \in BagToSet(rendering) :
               (Resumes(r) /\ r.admin_id = a /\ card'[a] # card[a]) =>
                   /\ card'[a].voters = r.stats.voters
                   /\ Shows(card'[a].total, r.stats.avg_total)
                   /\ Shows(card'[a].service, r.stats.avg_service)
                   /\ Shows(card'[a].solving, r.stats.avg_solving)
                   /\ Shows(card'[a].communication, r.stats.avg_communication)
        /\ \A u \in Users :
               (<<a, u>> \in DOMAIN drafts /\ <<a, u>> \notin DOMAIN drafts') =>
                   Counted(ratings', a) =
                       Counted(ratings, a) + (IF lastWrite[<<a, u>>] = NoCall THEN 1 ELSE 0)
      ]_vars

\* the card shows one voter, and a refresh has read one voter again with
\* another overall average: the rater has submitted anew in between
C7_Witness ==
    \E a \in Admins :
        /\ card[a] # NoCard
        /\ card[a].voters = 1
        /\ \E r \in BagToSet(rendering) :
               /\ r.admin_id = a
               /\ r.op = "edit"
               /\ r.stats.voters = 1
               /\ ~Shows(card[a].total, r.stats.avg_total)

\* the rows the table holds for an admin
StoredFor(admin_id) == {r \in ratings : r.admin_id = str(admin_id)}

\* the sum of a category over rows, counted score by score
Weighted(rows, c) ==
    LET N(k) == Cardinality({r \in rows : r[c] = k})
    IN  N(1) + 2 * N(2) + 3 * N(3) + 4 * N(4) + 5 * N(5)

\* C8: for a non-empty list of rows with scores in 1..5, fetch_stats returns
\* voters = the number of rows, each category average = the double nearest
\* to the sum of the category over the rows divided by voters, and
\* avg_total = the sum of the three averages divided by 3, in doubles, so
\* that 3 * voters * avg_total is the sum of all scores up to the rounding
\* of these operations; for a single row the category averages are the
\* row's scores.
C8_FetchStatsAverages ==
    (result.done /\ arg.op = "fetch_stats" /\ StoredFor(arg.admin_id) # {}) =>
        LET rows == StoredFor(arg.admin_id)
            st == result.value
            s == st.avg_service
            so == st.avg_solving
            c == st.avg_communication
            all == Weighted(rows, "service") + Weighted(rows, "solving")
                       + Weighted(rows, "communication")
        IN  /\ st.voters = Cardinality(rows)
            /\ Within(s, Weighted(rows, "service"), st.voters, 1)
            /\ Within(so, Weighted(rows, "solving"), st.voters, 1)
            /\ Within(c, Weighted(rows, "communication"), st.voters, 1)
            /\ st.avg_total = FloatDiv(FloatAdd(FloatAdd(s, so), c), 3)
            /\ Within(st.avg_total, all, 3 * st.voters, 4)
            /\ \A r \in rows :
                   rows = {r} => /\ Within(s, r.service, 1, 0)
                                 /\ Within(so, r.solving, 1, 0)
                                 /\ Within(c, r.communication, 1, 0)

\* fetch_stats has averaged two rows that differ in every category, and the
\* overall average is a double close to, and other than, the sum of the
\* scores divided by their number
C8_Witness ==
    /\ result.done
    /\ arg.op = "fetch_stats"
    /\ \E r1, r2 \in StoredFor(arg.admin_id) :
           /\ StoredFor(arg.admin_id) = {r1, r2}
           /\ \A c \in CATEGORIES : r1[c] # r2[c]
           /\ ~Within(result.value.avg_total,
                      r1.service + r1.solving + r1.communication
                          + r2.service + r2.solving + r2.communication, 6, 0)
    /\ result.value.voters = 2

\* C9: for an admin with no rating rows, the backend result being empty or
\* absent, fetch_stats returns a dict with voters = 0 and the four averages
\* equal to 0.0; it does not raise.
C9_EmptyStats ==
    (result.done /\ arg.op = "fetch_stats" /\ StoredFor(arg.admin_id) = {}) =>
        LET st == result.value
        IN  /\ DOMAIN st = {"voters", "avg_service", "avg_solving", "avg_communication",
                            "avg_total"}
            /\ st.voters = 0
            /\ \A f \in DOMAIN st \ {"voters"} : st[f] = FromInt(0)

\* fetch_stats has returned for an admin without rows, on a backend that
\* sent no data, while the table holds a row of another admin
C9_Witness ==
    /\ result.done
    /\ arg.op = "fetch_stats"
    /\ ~arg.present
    /\ StoredFor(arg.admin_id) = {}
    /\ ratings # {}
    /\ result.value.voters = 0

\* the number of glyphs in what stars() returned
GlyphCount(out) == Cardinality({i \in DOMAIN out : out[i] = Glyph})

\* n is an integer nearest to the fraction v
Nearest(n, v) ==
    LET diff == n * v.den - v.num
    IN  2 * (IF diff >= 0 THEN diff ELSE -diff) <= v.den

\* C10: for an average on the fixed-point grid, stars() renders as many
\* glyphs as the average rounded to the nearest integer and clamped to 0..5,
\* and renders the placeholder instead of glyphs exactly when that number
\* is 0; 0.0 gives the placeholder, 4.4 gives 4 glyphs, 4.6 gives 5 and 5.0
\* gives 5.
C10_StarsRounding ==
    result.done =>
        LET v == arg
            out == result.value
            g == GlyphCount(out)
        IN  /\ \E n \in 0..(MaxStar + 1) :
                   Nearest(n, v) /\ g = (IF n > MaxStar THEN MaxStar ELSE n)
            /\ g > 0 => out = [i \in 1..g |-> Glyph]
            /\ g = 0 <=> out = <<Placeholder>>
            /\ v.num = 0 => out = <<Placeholder>>
            /\ 10 * v.num = 44 * v.den => g = 4
            /\ 10 * v.num = 46 * v.den => g = 5
            /\ v.num = MaxStar * v.den => g = 5

\* stars() has rendered 4.6 as five glyphs
C10_Witness ==
    /\ result.done
    /\ 10 * arg.num = 46 * arg.den
    /\ result.value = <<Glyph, Glyph, Glyph, Glyph, Glyph>>

\* the custom image a table of admins holds for an admin, NoUrl when the
\* admin has no row
StoredImage(tbl, admin_id) ==
    IF \E r \in tbl : r.admin_id = str(admin_id)
    THEN (CHOOSE r \in tbl : r.admin_id = str(admin_id)).custom_image
    ELSE NoUrl

\* the messages on record
Sent(res) == {res.value[i] : i \in DOMAIN res.value}

\* the step is a !setupreview command put on record
CommandStep ==
    /\ result'.done
    /\ arg'.op = "setupreview"
    /\ \A r \in BagToSet(rendering') : Reads(r) => r.op = "send"

\* C11: when the command carries an attachment, it is stored as the custom
\* image of the admin only if its content type begins with "image/";
\* otherwise the attachment is rejected with a message, no custom image is
\* set and the command goes on to post the card (the backend calls of the
\* command succeed).
C11_AttachmentIntake ==
    [][(CommandStep /\ arg'.guild /\ arg'.permitted /\ arg'.target \in Admins
           /\ arg'.att # "none" /\ arg'.fail = "none") =>
          IF arg'.att = "image"
          THEN StoredImage(admins', arg'.target) = CustomUrl
          ELSE /\ "rejected" \in Sent(result')
               /\ StoredImage(admins', arg'.target) = StoredImage(admins, arg'.target)
               /\ \E r \in BagToSet(rendering') : Reads(r)
      ]_vars

\* C12: a !setupreview written in a guild by a user without the
\* administrator permission is declined in silence, whoever it names: no
\* card is posted, no row or custom image is written to the table of
\* admins, and no message is sent to the channel.
C12_SilentDecline ==
    [][(CommandStep /\ arg'.guild /\ ~arg'.permitted) =>
          /\ admins' = admins
          /\ card' = card
          /\ rendering' = rendering
          /\ ratings' = ratings
          /\ drafts' = drafts
          /\ Sent(result') = {}
      ]_vars

\* a command naming an admin and carrying an image has been declined
\* before any card was posted: the admin still has no row in admins
C12_Witness ==
    /\ result.done
    /\ arg.op = "setupreview"
    /\ arg.guild
    /\ ~arg.permitted
    /\ arg.target \in Admins
    /\ arg.att = "image"
    /\ result.value = << >>
    /\ AdminRows(admins, arg.target) = {}
    /\ \A a \in Admins : card[a] = NoCard

\* the key a handler in flight works on
KeyOf(h) == <<h.admin_id, h.user>>

\* C13: a draft leaves the registry only in the handler step that makes a
\* successful completing write for its key, and that step always removes
\* it; no other step (a view timing out, a category selection, a follow-up,
\* a handler of another key) removes or changes a draft, and a pick changes
\* the field of its category only, so that the fields filled earlier are
\* the ones written on completion.
C13_DraftLeavesOnWrite ==
    [][\A key \in Keys :
        /\ (key \in DOMAIN drafts /\ key \notin DOMAIN drafts') =>
               \E h \in BagToSet(handlers) :
                   /\ KeyOf(h) = key
                   /\ Replied(h, "thanks")
                   /\ \E r \in RowsOf(ratings', key) :
                          \A c \in CATEGORIES \ {h.category} : r[c] = drafts[key][c]
        /\ \A h \in BagToSet(handlers) :
               (KeyOf(h) = key /\ Replied(h, "thanks")) => key \notin DOMAIN drafts'
        /\ (key \in DOMAIN drafts /\ \A h \in BagToSet(handlers) : ~(KeyOf(h) = key /\ BodyOf(h))) =>
               key \in DOMAIN drafts' /\ drafts'[key] = drafts[key]
        /\ \A h \in BagToSet(handlers) :
               (KeyOf(h) = key /\ BodyOf(h) /\ key \in DOMAIN drafts /\ key \in DOMAIN drafts') =>
                   \A c \in CATEGORIES \ {h.category} : drafts'[key][c] = drafts[key][c]
      ]_vars

\* a completing write has just succeeded: its follow-up is still to be
\* sent, the key has no draft, the view of the last category is gone, and
\* the row holds scores picked in views that timed out before
C13_Witness ==
    \E key \in Keys :
        /\ key \notin DOMAIN drafts
        /\ views = {}
        /\ \E f \in BagToSet(handlers) :
               f.pc = "followup" /\ KeyOf(f) = key /\ f.reply = "thanks"
        /\ \E r \in RowsOf(ratings, key) : r.service # r.solving

\* C14: a self-rating attempt changes no state at any step, so the draft
\* registry never holds a key whose admin_id equals its rater_id.
C14_NoSelfDraft == \A key \in DOMAIN drafts : key[1] # key[2]

\* C15: posting or refreshing a card leaves the draft registry and the
\* ratings table unchanged, and the statistics read for the card are those
\* of the rows the table holds for the admin: the count of the rows and the
\* averages of their scores, whatever the drafts in progress.
C15_RenderFrame ==
    [][/\ (rendering' # rendering \/ card' # card \/ admins' # admins) =>
              drafts' = drafts /\ ratings' = ratings
       /\ \A r \in BagToSet(rendering') :
              Reads(r) =>
                  LET rows == StoredFor(r.admin_id)
                      n == Cardinality(rows)
                      st == r.stats
                  IN  /\ st.voters = n
                      /\ Within(st.avg_service, Weighted(rows, "service"),
                                IF n = 0 THEN 1 ELSE n, 1)
                      /\ Within(st.avg_solving, Weighted(rows, "solving"),
                                IF n = 0 THEN 1 ELSE n, 1)
                      /\ Within(st.avg_communication, Weighted(rows, "communication"),
                                IF n = 0 THEN 1 ELSE n, 1)
      ]_vars

\* a refresh has read the statistics of an admin without rows while a
\* rater has a draft with a category filled: the draft counts for nothing
C15_Witness ==
    /\ \E r \in BagToSet(rendering) : r.op = "edit" /\ r.stats.voters = 0
    /\ ratings = {}
    /\ \E key \in DOMAIN drafts : \E c \in CATEGORIES : drafts[key][c] # None

\* the step is the return of a send or an edit put on record
RenderStep ==
    /\ result'.done
    /\ arg'.op = "render"
    /\ Resumes(arg'.render)

\* the avatar the platform gives for a lookup
PlatformAvatar(lookup) == IF lookup = "nothing" THEN NoUrl ELSE AvatarUrl

\* the thumbnail of a card made with the lookup ending as said, on a read
\* of the table of admins with the outcome okImage
Thumbnail(tbl, admin_id, lookup, okImage) ==
    IF okImage /\ StoredImage(tbl, admin_id) # NoUrl THEN StoredImage(tbl, admin_id)
    ELSE PlatformAvatar(lookup)

\* how the lookup of the step on record ends: the member is cached when a
\* command or a refresh builds the embed at once
LookupOf(a) == IF a.op = "resume" THEN a.lookup ELSE Cached

\* C16: a failure of the custom-image lookup while a card is posted or
\* refreshed counts as no image: the card is rendered all the same, with
\* the avatar of the platform as thumbnail; a custom image that is stored
\* and can be read when the embed is built comes before the avatar.  The
\* embed is built when make_embed resumes, or at once when the member is
\* cached, and the message that is sent or edited shows that embed.
C16_ImageSoftFail ==
    [][/\ \A s \in BagToSet(rendering') :
              Built(s) =>
                  /\ result'.done
                  /\ arg'.op \in {"setupreview", "refresh", "resume"}
                  /\ s.embed.voters = s.stats.voters
                  /\ s.embed.thumbnail =
                         Thumbnail(admins', s.admin_id, LookupOf(arg'), arg'.okImage)
       /\ (RenderStep /\ arg'.okSend) => card'[arg'.render.admin_id] = arg'.render.embed
       /\ \A a \in Admins : card'[a] # card[a] => RenderStep /\ arg'.okSend
      ]_vars

\* make_embed has resumed with a failed lookup of the image while a custom
\* image is stored: the embed is built all the same, with the avatar of
\* the platform, and the caller waits in its send or edit
C16_Witness ==
    /\ result.done
    /\ arg.op = "resume"
    /\ ~arg.okImage
    /\ StoredImage(admins, arg.render.admin_id) = CustomUrl
    /\ \E s \in BagToSet(rendering) :
           /\ s.pc = "send"
           /\ s.admin_id = arg.render.admin_id
           /\ s.stats = arg.render.stats
           /\ s.embed.thumbnail = AvatarUrl

\* the draft a dict holds for a key, if any
DraftAt(d, key) == IF key \in DOMAIN d THEN {d[key]} ELSE {}

\* the step is one of the session of the key: a star selection resumed
\* after its defer, or a category selection that leaves its view on screen
ActsOn(key) ==
    \/ \E h \in BagToSet(handlers) : KeyOf(h) = key /\ BodyOf(h)
    \/ handlers' = handlers /\ \E v \in views' : <<v[1], v[3]>> = key

\* C17: the sessions are isolated per key: a category selection or a star
\* selection for a key, its write succeeding or failing, leaves the draft
\* and the stored row of every other key as they are, however the handlers
\* are interleaved.
C17_SessionIsolation ==
    [][\A key \in Keys \cup OtherKeys :
          (DraftAt(drafts', key) # DraftAt(drafts, key)
               \/ RowsOf(ratings', key) # RowsOf(ratings, key)) => ActsOn(key)
      ]_vars

\* the rater has a row of their own after a failed and a successful write,
\* handlers of the rater and of the admin are in flight together, and the
\* drafts and rows of the others are as at the start
C17_Witness ==
    /\ \E k \in Keys : RowsOf(ratings, k) # {}
    /\ \E h1, h2 \in BagToSet(handlers) : h1.user # h2.user
    /\ \E f \in BagToSet(handlers) : f.pc = "followup" /\ f.reply = "failed"
    /\ \A k \in OtherKeys :
           /\ DraftAt(drafts, k) = {SetAttr(RatingDraft, "solving", MaxStar)}
           /\ RowsOf(ratings, k) = {RatingRow(k[1], k[2], MaxStar, MinStar, MaxStar)}

\* the admins whose card is on screen, and the admins that rows of ratings name
Carded == {a \in Admins : card[a] # NoCard}
Rated == {r.admin_id : r \in ratings}

\* C18: every row of ratings names an admin who has a row in admins: the
\* card of an admin, which carries the rating controls, is on screen only
\* once ensure_admin has written the row of the admin, rows of admins are
\* never removed, and so the row of the admin is there before any rating.
C18_ProfileBeforeRating ==
    /\ \A a \in Carded : AdminRows(admins, a) # {}
    /\ \A v \in views : v[1] \in Carded
    /\ Rated \subseteq {p.admin_id : p \in admins}

\* a rating is stored for the admin, whose row ensure_admin has written
C18_Witness ==
    \E a \in Admins : str(a) \in Rated /\ AdminRows(admins, a) # {} /\ a \in Carded

\* C19: the card built for an admin shows the placeholder instead of stars
\* exactly when it counts zero voters; a card that counts one voter or more
\* shows an overall average between 1.00 and 5.00 and from one to five star
\* glyphs, the stored scores being between 1 and 5.
C19_PlaceholderIffNoVoters ==
    (result.done /\ arg.op = "make_embed_for_admin") =>
        LET embed == result.value
        IN  /\ embed.voters = Cardinality(StoredFor(arg.admin_id))
            /\ (embed.stars = <<Placeholder>>) <=> (embed.voters = 0)
            /\ embed.voters >= 1 =>
                   /\ embed.total \in (MinStar * 100)..(MaxStar * 100)
                   /\ Len(embed.stars) \in MinStar..MaxStar
                   /\ \A i \in DOMAIN embed.stars : embed.stars[i] = Glyph

\* the card of an admin whose one voter gave the lowest score in every
\* category shows 1.00 and a single star
C19_Witness ==
    /\ result.done
    /\ arg.op = "make_embed_for_admin"
    /\ result.value.voters = 1
    /\ result.value.total = MinStar * 100
    /\ result.value.stars = <<Glyph>>

====
